---- MODULE Spec2Model ----
\* Model of backend/app.py: the Flask application factory (_create_app) and
\* its registration stages, followed by the life of the registered shell
\* context producer.
EXTENDS Integers, Sequences, FiniteSets, TLC

\* ---------------------------------------------------------------- bounds
MaxBundles == 2
MaxEnvSteps == 1

\* Python's None, kept distinct from every string and from the empty string.
None == <<"None">>

\* -------------------------------------------------- Python dict semantics
\* A dict is an insertion-ordered sequence of <<key, value>> pairs with
\* unique keys.
Keys(d) == {d[i][1] : i \in DOMAIN d}

Get(d, k) == d[CHOOSE i \in DOMAIN d : d[i][1] = k][2]

\* d[k] = v : an existing key keeps its position, a new key goes last.
SetItem(d, k, v) ==
  IF k \in Keys(d)
  THEN [i \in DOMAIN d |-> IF d[i][1] = k THEN <<k, v>> ELSE d[i]]
  ELSE Append(d, <<k, v>>)

\* del d[k]
DelItem(d, k) == SelectSeq(d, LAMBDA p : p[1] # k)

\* d.update(e), also dict(pairs) when d is empty.
RECURSIVE Update(_, _)
Update(d, e) ==
  IF e = <<>> THEN d
  ELSE Update(SetItem(d, Head(e)[1], Head(e)[2]), Tail(e))

\* ------------------------------------------------------- Python strings
\* A string that is scanned character by character is a sequence of
\* one-character strings.
RECURSIVE rstrip(_, _)
rstrip(s, ch) ==
  IF s # <<>> /\ s[Len(s)] = ch THEN rstrip(SubSeq(s, 1, Len(s) - 1), ch)
  ELSE s

\* x or '' : None and the empty string are both falsy.
OrEmpty(x) == IF x = None \/ x = <<>> THEN <<>> ELSE x

\* ------------------------------------------------------------ the inputs
BundleNames == <<"b1", "b2", "b3", "b4">>
BlueprintNames == <<"views1", "views2">>

Api == <<"/", "a", "p", "i">>
Prefixes ==
  { None, <<>>, <<"/">>, Api, Api \o <<"/">>, Api \o <<"/", "/">>,
    <<"a", "p", "i", "/">> }

\* The url_prefix lists a bundle's blueprints may declare.
BlueprintChoices ==
  {<<>>} \cup {<<p>> : p \in Prefixes} \cup {<<Api \o <<"/">>, None>>}

ModelClass(bundle, name) == <<"model", bundle, name>>
SerializerClass(bundle, own, target) == <<"serializer", bundle, own, target>>
\* serializer_class.Meta.model.__name__
MetaModelName(cls) == cls[4]
Command(ident, clickName) == <<"command", ident, clickName>>
\* click's Command.name
CommandName(cmd) == cmd[3]
Extension(wave, id) == <<"extension", wave, id>>

\* (models, serializers) a bundle may declare: lists of model names and of
\* <<serializer class name, target model name>>.
RegistryChoices ==
  { <<m, <<>>>> : m \in {<<>>, <<"Bar">>, <<"Foo">>, <<"Bar", "Foo">>} }
  \cup
  { <<<<>>, s>> : s \in { <<<<"FooSerializer", "Bar">>>>,
                          <<<<"Bar", "Foo">>>>,
                          <<<<"FooSerializer", "Bar">>, <<"BarSerializer", "Bar">>>> } }
  \cup
  { << <<"Bar">>, <<<<"FooSerializer", "Bar">>>> >> }

CommandNames == {"db", "users"}
\* <<attribute name, click name>> of a command group, or None.
CommandChoices == {None} \cup (CommandNames \X CommandNames)

Bundle(i, bps, reg, cg) ==
  [ name |-> BundleNames[i],
    module_name |-> <<"backend", BundleNames[i]>>,
    blueprints |-> [k \in DOMAIN bps |->
                      [name |-> BlueprintNames[k], url_prefix |-> bps[k]]],
    models |-> [k \in DOMAIN reg[1] |->
                  <<reg[1][k], ModelClass(BundleNames[i], reg[1][k])>>],
    serializers |-> [k \in DOMAIN reg[2] |->
                  <<reg[2][k][1],
                    SerializerClass(BundleNames[i], reg[2][k][1], reg[2][k][2])>>],
    has_command_group |-> cg # None,
    command_group_name |-> IF cg = None THEN "" ELSE cg[1],
    command_group |-> IF cg = None THEN None
                      ELSE Command(BundleNames[i], cg[2]) ]

DefaultBlueprints == <<Api \o <<"/">>>>
DefaultRegistry == <<<<>>, <<>>>>

SeqsUpTo(S, n) == UNION {[1..k -> S] : k \in 0..n}

\* what each of up to MaxBundles bundles declares
BundlesOf(choices) == SeqsUpTo(choices, MaxBundles)

MkExtensions(wave, ids) == [k \in DOMAIN ids |-> <<ids[k], Extension(wave, ids[k])>>]

\* <<EXTENSIONS ids, DEFERRED_EXTENSIONS ids>>
ExtensionChoices ==
  { <<<<"db">>, <<"admin">>>>, <<<<"Bar">>, <<"admin">>>>, <<<<"db">>, <<"db">>>>,
    <<<<>>, <<>>>>, <<<<"db", "Bar", "mail">>, <<"Foo", "admin">>>> }
DefaultExtensions == <<<<"db">>, <<"admin">>>>

\* what get_commands() yields: <<attribute name, command>> pairs
TopCommandChoices ==
  {<<>>} \cup { << <<c[1], Command("top", c[2])>> >> : c \in CommandNames \X CommandNames }
DefaultTopCommands == << <<"db", Command("top", "db")>> >>

Scenario(bs, strict, exts, cmds) ==
  [ bundles |-> bs,
    config |-> [ STRICT_SLASHES |-> strict,
                 EXTENSIONS |-> MkExtensions("base", exts[1]),
                 DEFERRED_EXTENSIONS |-> MkExtensions("deferred", exts[2]) ],
    commands |-> cmds ]

BlueprintScenarios ==
  { Scenario([i \in DOMAIN cs |-> Bundle(i, cs[i], DefaultRegistry, None)],
             strict, DefaultExtensions, DefaultTopCommands) :
      cs \in BundlesOf(BlueprintChoices), strict \in BOOLEAN }

RegistryScenarios ==
  { Scenario([i \in DOMAIN cs |-> Bundle(i, DefaultBlueprints, cs[i], None)],
             FALSE, exts, DefaultTopCommands) :
      cs \in BundlesOf(RegistryChoices), exts \in ExtensionChoices }

CliScenarios ==
  { Scenario([i \in DOMAIN cs |-> Bundle(i, DefaultBlueprints, DefaultRegistry, cs[i])],
             FALSE, DefaultExtensions, cmds) :
      cs \in BundlesOf(CommandChoices), cmds \in TopCommandChoices }

Scenarios == BlueprintScenarios \cup RegistryScenarios \cup CliScenarios

\* ------------------------------------------------------------- the state
VARIABLES
  pc,             \* the statement of _create_app about to run, or how it ended
  config_object,  \* the config class handed to _create_app
  modules,        \* what .config and .magic provide: EXTENSIONS,
                  \* DEFERRED_EXTENSIONS and the commands of get_commands()
  app,            \* the Flask application object
  extensions,     \* the dict `extensions` of _create_app, the one the shell
                  \* context closure refers to
  log,            \* logger.error calls
  trace,          \* the calls made so far, in order
  ctx,            \* the mapping returned by the last shell_context() call
  ctxAt,          \* the value of envSteps when ctx was returned, -1 before
                  \* the first call
  envSteps,       \* changes made by the application's owner after start-up
  regExtensions   \* the contents of `extensions` when register_shell_context ran

vars == <<pc, config_object, modules, app, extensions, log, trace, ctx,
          ctxAt, envSteps, regExtensions>>

Event(op, arg) == [op |-> op, arg |-> arg]

RECURSIVE Flatten(_)
Flatten(ss) == IF ss = <<>> THEN <<>> ELSE Head(ss) \o Flatten(Tail(ss))

\* Flask.iterbundles: the values of app.bundles in insertion order.
iterbundles(a) == a.bundles

Init ==
  \E sc \in Scenarios :
    /\ pc = "configure_app"
    /\ config_object = [STRICT_SLASHES |-> sc.config.STRICT_SLASHES, ALEMBIC |-> <<>>]
    /\ modules = [ EXTENSIONS |-> sc.config.EXTENSIONS,
                   DEFERRED_EXTENSIONS |-> sc.config.DEFERRED_EXTENSIONS,
                   commands |-> sc.commands ]
    /\ app = [ bundles |-> sc.bundles,
               models |-> <<>>,
               serializers |-> <<>>,
               config |-> <<>>,
               jinja_extensions |-> <<>>,
               before_request_funcs |-> <<>>,
               after_request_funcs |-> <<>>,
               strict_slashes |-> TRUE,
               blueprints |-> <<>>,
               initialized |-> <<>>,
               cli_commands |-> <<>>,
               shell_context_processors |-> <<>> ]
    /\ extensions = <<>>
    /\ log = <<>>
    /\ trace = <<>>
    /\ ctx = <<>>
    /\ ctxAt = -1
    /\ envSteps = 0
    /\ regExtensions = <<>>

\* ------------------------------------------------------------ _create_app
\* The order with the first wave of extensions moved behind the blueprints.
NextStageBlueprintsFirst(stage) ==
  CASE stage = "configure_app" -> "register_blueprints"
    [] stage = "register_blueprints" -> "register_extensions"
    [] stage = "register_extensions" -> "register_models"
    [] stage = "register_models" -> "register_serializers"
    [] stage = "register_serializers" -> "register_deferred_extensions"
    [] stage = "register_deferred_extensions" -> "register_cli_commands"
    [] stage = "register_cli_commands" -> "register_shell_context"
    [] stage = "register_shell_context" -> "returned"

\* The statement that follows each call of _create_app.
NextStage(stage) ==
  CASE stage = "configure_app" -> "register_extensions"
    [] stage = "register_extensions" -> "register_blueprints"
    [] stage = "register_blueprints" -> "register_models"
    [] stage = "register_models" -> "register_serializers"
    [] stage = "register_serializers" -> "register_deferred_extensions"
    [] stage = "register_deferred_extensions" -> "register_cli_commands"
    [] stage = "register_cli_commands" -> "register_shell_context"
    [] stage = "register_shell_context" -> "returned"

\* ---------------------------------------------------------- configure_app
version_locations(bs) ==
  [i \in DOMAIN bs |->
     <<bs[i].name, <<"PROJECT_ROOT">> \o bs[i].module_name \o <<"migrations">>>>]

\* app.config.from_object(config_object)
from_object(cfg, obj) ==
  SetItem(SetItem(cfg, "ALEMBIC", obj.ALEMBIC), "STRICT_SLASHES", obj.STRICT_SLASHES)

ConfigureApp ==
  /\ pc = "configure_app"
  /\ LET obj == [config_object EXCEPT !.ALEMBIC = version_locations(iterbundles(app))]
     IN /\ config_object' = obj
        /\ app' = [app EXCEPT
              !.config = from_object(@, obj),
              !.jinja_extensions = Append(@, "jinja2_time.TimeExtension"),
              !.before_request_funcs = Append(@, "enable_session_timeout"),
              !.after_request_funcs = Append(@, "set_csrf_cookie")]
  /\ trace' = trace \o <<Event("call", <<"configure_app">>),
                         Event("from_object", <<>>)>>
  /\ pc' = NextStage("configure_app")
  /\ UNCHANGED <<modules, extensions, log, ctx, ctxAt, envSteps, regExtensions>>

\* ------------------------------------------------------ register_extensions
\* A loop that swallows the exception and goes on with the next extension.
register_extensions_keeps_going(exts, failAt) ==
  [ initialized |-> SelectSeq([i \in DOMAIN exts |-> exts[i][2]],
                               LAMBDA e : failAt = 0 \/ e # exts[failAt][2]),
    events |-> [i \in DOMAIN exts |->
                  Event(IF i = failAt THEN "init_app_raised" ELSE "init_app",
                        <<exts[i][2][2], exts[i][1]>>)],
    raised |-> failAt # 0 ]

\* init_app is the extension's own code: it either returns or raises.
\* failAt = 0: every init_app returns; failAt = k: the k-th one raises.
register_extensions(exts, failAt) ==
  LET n == IF failAt = 0 THEN Len(exts) ELSE failAt - 1
  IN [ initialized |-> [i \in 1..n |-> exts[i][2]],
       events |-> [i \in 1..n |-> Event("init_app", <<exts[i][2][2], exts[i][1]>>)]
                  \o (IF failAt = 0 THEN <<>>
                      ELSE <<Event("init_app_raised",
                                   <<exts[failAt][2][2], exts[failAt][1]>>)>>),
       raised |-> failAt # 0 ]

RegisterExtensions ==
  /\ pc = "register_extensions"
  /\ LET base == Update(<<>>, modules.EXTENSIONS)
     IN \E failAt \in 0..Len(base) :
          LET r == register_extensions(base, failAt)
          IN /\ extensions' = base
             /\ app' = [app EXCEPT !.initialized = @ \o r.initialized]
             /\ trace' = trace \o <<Event("call", <<"register_extensions", "base">>)>>
                               \o r.events
             /\ pc' = IF r.raised THEN "raised" ELSE NextStage("register_extensions")
  /\ UNCHANGED <<config_object, modules, log, ctx, ctxAt, envSteps, regExtensions>>

RegisterDeferredExtensions ==
  /\ pc = "register_deferred_extensions"
  /\ LET deferred == Update(<<>>, modules.DEFERRED_EXTENSIONS)
     IN \E failAt \in 0..Len(deferred) :
          LET r == register_extensions(deferred, failAt)
          IN /\ extensions' = Update(extensions, deferred)
             /\ app' = [app EXCEPT !.initialized = @ \o r.initialized]
             /\ trace' = trace \o <<Event("call", <<"register_extensions", "deferred">>)>>
                               \o r.events
             /\ pc' = IF r.raised THEN "raised"
                      ELSE NextStage("register_deferred_extensions")
  /\ UNCHANGED <<config_object, modules, log, ctx, ctxAt, envSteps, regExtensions>>

\* ------------------------------------------------------ register_blueprints
ConfigGet(cfg, key, default) == IF key \in Keys(cfg) THEN Get(cfg, key) ELSE default

\* Only one trailing slash is removed.
effective_prefix_strip_one(url_prefix) ==
  LET p == OrEmpty(url_prefix)
  IN IF p # <<>> /\ p[Len(p)] = "/" THEN SubSeq(p, 1, Len(p) - 1) ELSE p

\* url_prefix = (blueprint.url_prefix or '').rstrip('/')
effective_prefix(url_prefix) == rstrip(OrEmpty(url_prefix), "/")

register_blueprints(bs) ==
  Flatten([i \in DOMAIN bs |->
     [k \in DOMAIN bs[i].blueprints |->
        [ bundle |-> bs[i].name,
          name |-> bs[i].blueprints[k].name,
          url_prefix |-> effective_prefix(bs[i].blueprints[k].url_prefix) ]]])

RegisterBlueprints ==
  /\ pc = "register_blueprints"
  /\ LET attached == register_blueprints(iterbundles(app))
     IN /\ app' = [app EXCEPT
              !.strict_slashes =
                 IF ~ConfigGet(app.config, "STRICT_SLASHES", FALSE) THEN FALSE ELSE @,
              !.blueprints = @ \o attached]
        /\ trace' = trace \o <<Event("call", <<"register_blueprints">>)>>
                          \o [k \in DOMAIN attached |->
                                Event("register_blueprint",
                                      <<attached[k].bundle, attached[k].name>>)]
  /\ pc' = NextStage("register_blueprints")
  /\ UNCHANGED <<config_object, modules, extensions, log, ctx, ctxAt, envSteps,
                 regExtensions>>

\* -------------------------------------------- register_models / serializers
RECURSIVE Reverse(_)
Reverse(q) == IF q = <<>> THEN <<>> ELSE Append(Reverse(Tail(q)), Head(q))

\* The first bundle to declare a name keeps it.
register_models_first_wins(bs) ==
  Update(<<>>, Reverse(Flatten([i \in DOMAIN bs |-> bs[i].models])))

register_models(bs) ==
  Update(<<>>, Flatten([i \in DOMAIN bs |-> bs[i].models]))

RegisterModels ==
  /\ pc = "register_models"
  /\ app' = [app EXCEPT !.models = register_models(iterbundles(app))]
  /\ trace' = trace \o <<Event("call", <<"register_models">>),
                         Event("assign_models", <<>>)>>
  /\ pc' = NextStage("register_models")
  /\ UNCHANGED <<config_object, modules, extensions, log, ctx, ctxAt, envSteps,
                 regExtensions>>

\* Keyed by the name the serializer was declared under.
serializer_key_own_name(pair) == pair[1]

\* the key a serializer is stored under: `for _, serializer_class in ...`
serializer_key(pair) == MetaModelName(pair[2])

register_serializers(bs) ==
  LET pairs == Flatten([i \in DOMAIN bs |-> bs[i].serializers])
  IN Update(<<>>, [k \in DOMAIN pairs |-> <<serializer_key(pairs[k]), pairs[k][2]>>])

RegisterSerializers ==
  /\ pc = "register_serializers"
  /\ app' = [app EXCEPT !.serializers = register_serializers(iterbundles(app))]
  /\ trace' = trace \o <<Event("call", <<"register_serializers">>),
                         Event("assign_serializers", <<>>)>>
  /\ pc' = NextStage("register_serializers")
  /\ UNCHANGED <<config_object, modules, extensions, log, ctx, ctxAt, envSteps,
                 regExtensions>>

\* ---------------------------------------------------- register_cli_commands
\* commands = list(get_commands()) + the command group of every bundle that
\* has one
collect_commands(top, bs) ==
  top \o Flatten([i \in DOMAIN bs |->
                    IF bs[i].has_command_group
                    THEN <<<<bs[i].command_group_name, bs[i].command_group>>>>
                    ELSE <<>>])

\* No check at all.
name_taken_never(name, commands) == FALSE

\* if name in app.cli.commands
name_taken(name, commands) == name \in Keys(commands)

\* click's Group.add_command(cmd): self.commands[cmd.name] = cmd
add_command(commands, cmd) == SetItem(commands, CommandName(cmd), cmd)

RECURSIVE cli_loop(_, _, _)
cli_loop(todo, commands, events) ==
  IF todo = <<>>
  THEN [commands |-> commands, events |-> events, log |-> <<>>, exited |-> FALSE]
  ELSE LET name == Head(todo)[1]
           command == Head(todo)[2]
       IN IF name_taken(name, commands)
          THEN [ commands |-> commands,
                 events |-> Append(events, Event("exit", <<name>>)),
                 log |-> <<<<"Command name conflict", name>>>>,
                 exited |-> TRUE ]
          ELSE cli_loop(Tail(todo), add_command(commands, command),
                        Append(events, Event("add_command",
                                             <<name, CommandName(command)>>)))

register_cli_commands(commands, top, bs) ==
  cli_loop(collect_commands(top, bs), commands, <<>>)

RegisterCliCommands ==
  /\ pc = "register_cli_commands"
  /\ LET r == register_cli_commands(app.cli_commands, modules.commands,
                                    iterbundles(app))
     IN /\ app' = [app EXCEPT !.cli_commands = r.commands]
        /\ log' = log \o r.log
        /\ trace' = trace \o <<Event("call", <<"register_cli_commands">>)>> \o r.events
        /\ pc' = IF r.exited THEN "exited" ELSE NextStage("register_cli_commands")
  /\ UNCHANGED <<config_object, modules, extensions, ctx, ctxAt, envSteps,
                 regExtensions>>

\* --------------------------------------------------- register_shell_context
RegisterShellContext ==
  /\ pc = "register_shell_context"
  /\ app' = [app EXCEPT !.shell_context_processors = Append(@, "shell_context")]
  /\ regExtensions' = extensions
  /\ trace' = trace \o <<Event("call", <<"register_shell_context">>),
                         Event("shell_context_processor", <<>>)>>
  /\ pc' = NextStage("register_shell_context")
  /\ UNCHANGED <<config_object, modules, extensions, log, ctx, ctxAt, envSteps>>

\* A copy taken when register_shell_context ran.
closure_extensions_copied == regExtensions

\* The free variable `extensions` of shell_context: the dict that was passed
\* to register_shell_context, as it is when shell_context runs.
closure_extensions == extensions

\* The three updates in the opposite order.
shell_context_reversed(exts, models, serializers) ==
  Update(Update(Update(<<>>, serializers), models), exts)

\* ctx = {}; ctx.update(extensions); ctx.update(app.models);
\* ctx.update(app.serializers)
shell_context(exts, models, serializers) ==
  Update(Update(Update(<<>>, exts), models), serializers)

\* `flask shell` runs the registered processors of the application it was
\* given.
ShellContext ==
  /\ pc = "returned"
  /\ app.shell_context_processors # <<>>
  /\ ctx' = shell_context(closure_extensions, app.models, app.serializers)
  /\ ctxAt' = envSteps
  /\ UNCHANGED <<pc, config_object, modules, app, extensions, log, trace, envSteps,
                 regExtensions>>

\* ------------------------------------- the application's owner, afterwards
LateModel == <<"Late", ModelClass("late", "Late")>>
LateSerializer == <<"Late", SerializerClass("late", "LateSerializer", "Late")>>
LateExtension == <<"late", Extension("late", "late")>>

\* app.models = {...}: the attribute is bound to a new dict.
EnvSetModels ==
  /\ pc = "returned"
  /\ envSteps < MaxEnvSteps
  /\ app' = [app EXCEPT !.models = <<LateModel>>]
  /\ envSteps' = envSteps + 1
  /\ UNCHANGED <<pc, config_object, modules, extensions, log, trace, ctx, ctxAt,
                 regExtensions>>

\* app.serializers[name] = cls: the dict is changed in place.
EnvAddSerializer ==
  /\ pc = "returned"
  /\ envSteps < MaxEnvSteps
  /\ app' = [app EXCEPT !.serializers = SetItem(@, LateSerializer[1], LateSerializer[2])]
  /\ envSteps' = envSteps + 1
  /\ UNCHANGED <<pc, config_object, modules, extensions, log, trace, ctx, ctxAt,
                 regExtensions>>

\* The extensions mapping is changed in place: an entry is added, or its first
\* entry is replaced or removed.
EnvChangeExtensions ==
  /\ pc = "returned"
  /\ envSteps < MaxEnvSteps
  /\ \/ extensions' = SetItem(extensions, LateExtension[1], LateExtension[2])
     \/ /\ extensions # <<>>
        /\ \/ extensions' = DelItem(extensions, extensions[1][1])
           \/ extensions' = SetItem(extensions, extensions[1][1], LateExtension[2])
  /\ envSteps' = envSteps + 1
  /\ UNCHANGED <<pc, config_object, modules, app, log, trace, ctx, ctxAt,
                 regExtensions>>

Next ==
  \/ ConfigureApp
  \/ RegisterExtensions
  \/ RegisterBlueprints
  \/ RegisterModels
  \/ RegisterSerializers
  \/ RegisterDeferredExtensions
  \/ RegisterCliCommands
  \/ RegisterShellContext
  \/ ShellContext
  \/ EnvSetModels
  \/ EnvAddSerializer
  \/ EnvChangeExtensions

Spec == Init /\ [][Next]_vars

\* ================================================================ claims
Range(q) == {q[i] : i \in DOMAIN q}
Calls == SelectSeq(trace, LAMBDA e : e.op = "call")
Happened(op) == \E i \in DOMAIN trace : trace[i].op = op
Called(fn) == \E i \in DOMAIN trace : trace[i].op = "call" /\ trace[i].arg[1] = fn
IsInitApp(e, wave) == e.op \in {"init_app", "init_app_raised"} /\ e.arg[1] = wave

StageOrder ==
  << <<"configure_app">>, <<"register_extensions", "base">>,
     <<"register_blueprints">>, <<"register_models">>, <<"register_serializers">>,
     <<"register_extensions", "deferred">>, <<"register_cli_commands">>,
     <<"register_shell_context">> >>

\* C1: the stages of _create_app are called in the fixed order configure_app,
\* register_extensions(base), register_blueprints, register_models,
\* register_serializers, register_extensions(deferred), register_cli_commands,
\* register_shell_context, none skipped or repeated (all eight when the
\* application is returned); every init_app of a base extension comes after
\* the configuration was applied and before every blueprint attachment, and
\* every init_app of a deferred extension comes after app.models and
\* app.serializers were assigned and before every add_command.
C1_StageOrder ==
  /\ Len(Calls) <= Len(StageOrder)
  /\ \A i \in DOMAIN Calls : Calls[i].arg = StageOrder[i]
  /\ pc = "returned" =>
       /\ Len(Calls) = Len(StageOrder)
       /\ \A k \in DOMAIN modules.EXTENSIONS :
            Event("init_app", <<"base", modules.EXTENSIONS[k][1]>>) \in Range(trace)
       /\ \A k \in DOMAIN modules.DEFERRED_EXTENSIONS :
            Event("init_app", <<"deferred", modules.DEFERRED_EXTENSIONS[k][1]>>)
              \in Range(trace)
  /\ \A i \in DOMAIN trace :
       /\ IsInitApp(trace[i], "base") =>
            /\ \E k \in 1..(i - 1) : trace[k].op = "from_object"
            /\ \A j \in DOMAIN trace : trace[j].op = "register_blueprint" => i < j
       /\ IsInitApp(trace[i], "deferred") =>
            /\ \E k \in 1..(i - 1) : trace[k].op = "assign_models"
            /\ \E k \in 1..(i - 1) : trace[k].op = "assign_serializers"
            /\ \A j \in DOMAIN trace : trace[j].op = "add_command" => i < j

C1_Witness ==
  /\ pc = "returned"
  /\ \E i \in DOMAIN trace : IsInitApp(trace[i], "base")
  /\ \E i \in DOMAIN trace : IsInitApp(trace[i], "deferred")
  /\ Happened("register_blueprint")
  /\ Happened("add_command")

\* ---- the declarations of the bundles, read off app.bundles
DeclaresModel(i, n) == \E k \in DOMAIN app.bundles[i].models : app.bundles[i].models[k][1] = n
DeclaredModel(i, n) ==
  app.bundles[i].models[CHOOSE k \in DOMAIN app.bundles[i].models :
                          app.bundles[i].models[k][1] = n][2]
DeclaredModelNames ==
  UNION {{app.bundles[i].models[k][1] : k \in DOMAIN app.bundles[i].models} :
           i \in DOMAIN app.bundles}
ModelDeclarers(n) == {i \in DOMAIN app.bundles : DeclaresModel(i, n)}
Max(S) == CHOOSE x \in S : \A y \in S : y <= x

\* C5: once register_models has run, app.models has exactly the declared model
\* names as keys; a name declared by several bundles holds the class of the
\* bundle that comes last in app.bundles, a name declared by one bundle holds
\* that bundle's class; and the call raised nothing (register_serializers is
\* next).
C5_LastModelWins ==
  (Happened("assign_models") /\ envSteps = 0) =>
    /\ Keys(app.models) = DeclaredModelNames
    /\ \A n \in DeclaredModelNames :
         Get(app.models, n) = DeclaredModel(Max(ModelDeclarers(n)), n)
    /\ Called("register_serializers") \/ pc = "register_serializers"

C5_Witness ==
  /\ pc = "register_serializers"
  /\ \E n \in DeclaredModelNames : Cardinality(ModelDeclarers(n)) = 2
  /\ \E n \in DeclaredModelNames : Cardinality(ModelDeclarers(n)) = 1

\* <<bundle index, position>> of every declared serializer
SerializerSlots ==
  UNION {{<<i, k>> : k \in DOMAIN app.bundles[i].serializers} :
           i \in DOMAIN app.bundles}
SerializerAt(s) == app.bundles[s[1]].serializers[s[2]]
Later(s, t) == s[1] < t[1] \/ (s[1] = t[1] /\ s[2] < t[2])
TargetNames == {MetaModelName(SerializerAt(s)[2]) : s \in SerializerSlots}

\* C6: once register_serializers has run, the keys of app.serializers are
\* exactly the names of the targeted model classes; each key holds the last
\* (in iteration order) serializer that targets it; the name a serializer was
\* declared under is a key only when it is also a targeted model name.
C6_KeyedByTargetModel ==
  (Happened("assign_serializers") /\ envSteps = 0) =>
    /\ Keys(app.serializers) = TargetNames
    /\ \A s \in SerializerSlots :
         LET cls == SerializerAt(s)[2]
         IN /\ (\A t \in SerializerSlots :
                  Later(s, t) => MetaModelName(SerializerAt(t)[2]) # MetaModelName(cls))
                => Get(app.serializers, MetaModelName(cls)) = cls
            /\ SerializerAt(s)[1] \in Keys(app.serializers)
                 => SerializerAt(s)[1] \in TargetNames

C6_Witness ==
  /\ Happened("assign_serializers") /\ envSteps = 0
  /\ \E s, t \in SerializerSlots :
       /\ Later(s, t)
       /\ MetaModelName(SerializerAt(s)[2]) = "Bar"
       /\ MetaModelName(SerializerAt(t)[2]) = "Bar"
       /\ SerializerAt(s)[1] = "FooSerializer"
       /\ "FooSerializer" \notin Keys(app.serializers)
       /\ Get(app.serializers, "Bar") = SerializerAt(t)[2]

\* ---- blueprints
BlueprintSlots ==
  UNION {{<<i, k>> : k \in DOMAIN app.bundles[i].blueprints} :
           i \in DOMAIN app.bundles}
\* how many blueprints come before slot s in bundle iteration order
Before(s) == Cardinality({t \in BlueprintSlots : Later(t, s)})
DeclaredPrefix(s) == app.bundles[s[1]].blueprints[s[2]].url_prefix
\* q is p without its trailing slashes
Stripped(p, q) ==
  /\ Len(q) <= Len(p)
  /\ \A k \in DOMAIN q : q[k] = p[k]
  /\ \A k \in (Len(q) + 1)..Len(p) : p[k] = "/"
  /\ q = <<>> \/ q[Len(q)] # "/"

\* C7: once register_blueprints has run, app.blueprints lists every blueprint
\* of every bundle exactly once, in bundle iteration order, each with the
\* declared prefix without its trailing slashes: "/api/" is attached as
\* "/api", "" and None are attached as "" (unprefixed), and no attached prefix
\* ends with "/".
C7_PrefixStripped ==
  Called("register_blueprints") =>
    /\ Len(app.blueprints) = Cardinality(BlueprintSlots)
    /\ \A s \in BlueprintSlots :
         LET a == app.blueprints[Before(s) + 1]
             p == DeclaredPrefix(s)
         IN /\ a.bundle = app.bundles[s[1]].name
            /\ a.name = app.bundles[s[1]].blueprints[s[2]].name
            /\ IF p = None THEN a.url_prefix = <<>> ELSE Stripped(p, a.url_prefix)
            /\ p = Api \o <<"/">> => a.url_prefix = Api
            /\ p = <<>> => a.url_prefix = <<>>
    /\ \A k \in DOMAIN app.blueprints :
         LET q == app.blueprints[k].url_prefix
         IN q = <<>> \/ q[Len(q)] # "/"

C7_Witness ==
  /\ Called("register_blueprints")
  /\ \E s, t, u \in BlueprintSlots :
       /\ s[1] # u[1]
       /\ DeclaredPrefix(s) = Api \o <<"/">>
       /\ DeclaredPrefix(t) = None
       /\ DeclaredPrefix(u) = Api \o <<"/", "/">>
       /\ app.blueprints[Before(u) + 1].url_prefix = Api

\* ---- shell context
ExtIds(pairs) == {pairs[k][1] : k \in DOMAIN pairs}
\* the mapping with these keys that prefers serializers, then models, then
\* extensions
Merged(d, exts, models, serializers) ==
  /\ Keys(d) = Keys(exts) \cup Keys(models) \cup Keys(serializers)
  /\ \A k \in Keys(d) :
       Get(d, k) = IF k \in Keys(serializers) THEN Get(serializers, k)
                   ELSE IF k \in Keys(models) THEN Get(models, k)
                   ELSE Get(exts, k)

\* C8: a shell_context() call made once _create_app has returned (and before
\* anything was changed afterwards) returns a mapping whose keys are exactly
\* the identifiers of EXTENSIONS and DEFERRED_EXTENSIONS, the keys of
\* app.models and the keys of app.serializers; a key held by several of them
\* has the serializer, else the model, else the extension (the deferred one
\* when both waves use the identifier).
C8_ShellContextKeys ==
  (ctxAt = 0 /\ envSteps = 0) =>
    /\ Keys(ctx) = ExtIds(modules.EXTENSIONS) \cup ExtIds(modules.DEFERRED_EXTENSIONS)
                     \cup Keys(app.models) \cup Keys(app.serializers)
    /\ \A k \in Keys(ctx) :
         Get(ctx, k) =
           IF k \in Keys(app.serializers) THEN Get(app.serializers, k)
           ELSE IF k \in Keys(app.models) THEN Get(app.models, k)
           ELSE IF k \in ExtIds(modules.DEFERRED_EXTENSIONS)
                THEN Get(modules.DEFERRED_EXTENSIONS, k)
           ELSE Get(modules.EXTENSIONS, k)

C8_Witness ==
  /\ ctxAt = 0 /\ envSteps = 0
  /\ \E k \in ExtIds(modules.EXTENSIONS) : k \in Keys(app.models) \cap Keys(app.serializers)
  /\ \E k \in ExtIds(modules.EXTENSIONS) : k \notin Keys(app.models) \cup Keys(app.serializers)

\* C9 as stated: register_shell_context does not run the producer, a call
\* reflects app.models and app.serializers as they are at the call, and the
\* extensions it returns are those of the time register_shell_context ran,
\* whatever was done to the extensions mapping since.
C9_ExtensionsCapturedByValue ==
  /\ pc # "returned" => ctxAt = -1
  /\ ctxAt = envSteps => Merged(ctx, regExtensions, app.models, app.serializers)

\* C9 amended: register_shell_context does not run the producer, and a call
\* reflects app.models, app.serializers and the extensions mapping that was
\* passed to register_shell_context, all three as they are at the call.
C9_ExtensionsCapturedByReference ==
  /\ pc # "returned" => ctxAt = -1
  /\ ctxAt = envSteps => Merged(ctx, extensions, app.models, app.serializers)

C9_Witness ==
  /\ ctxAt = envSteps
  /\ envSteps > 0
  /\ Keys(extensions) # Keys(regExtensions)

\* ---- failures
\* the failing extension's wave, mapping and position, read off the last event
RaisedWave == trace[Len(trace)].arg[1]
RaisedMapping ==
  IF RaisedWave = "base" THEN modules.EXTENSIONS ELSE modules.DEFERRED_EXTENSIONS
RaisedAt ==
  CHOOSE i \in DOMAIN RaisedMapping : RaisedMapping[i][1] = trace[Len(trace)].arg[2]

AbortedByExtension ==
  pc = "raised" =>
    /\ trace[Len(trace)].op = "init_app_raised"
    /\ \A i \in DOMAIN RaisedMapping :
         /\ i > RaisedAt => RaisedMapping[i][2] \notin Range(app.initialized)
         /\ i < RaisedAt => RaisedMapping[i][2] \in Range(app.initialized)
    /\ RaisedWave = "deferred" =>
         \A i \in DOMAIN modules.EXTENSIONS :
           modules.EXTENSIONS[i][2] \in Range(app.initialized)
    /\ Calls[Len(Calls)].arg = <<"register_extensions", RaisedWave>>
    /\ app.cli_commands = <<>>
    /\ app.shell_context_processors = <<>>
    /\ RaisedWave = "base" => app.blueprints = <<>> /\ ~Happened("assign_models")

\* C10: when the init_app of an extension raises, no extension after it in
\* its mapping is initialised, the extensions initialised before it (and the
\* whole first wave, when it is a deferred one) stay initialised, no later
\* stage of _create_app has run, and from then on no application is ever
\* returned.
C10_FailureAborts ==
  /\ []AbortedByExtension
  /\ [][pc = "raised" => pc' = "raised"]_vars

C10_Witness ==
  /\ pc = "raised"
  /\ \E i, j \in DOMAIN RaisedMapping : i < RaisedAt /\ RaisedAt < j
  /\ app.initialized # <<>>

\* ---- name collisions
Todo == collect_commands(modules.commands, app.bundles)
\* the name checked for the j-th command is a key of app.cli.commands by then
TakenAt(j) == \E i \in 1..(j - 1) : CommandName(Todo[i][2]) = Todo[j][1]
ModelCollision == \E n \in DeclaredModelNames : Cardinality(ModelDeclarers(n)) > 1
SerializerCollision ==
  \E s, t \in SerializerSlots :
    s # t /\ MetaModelName(SerializerAt(s)[2]) = MetaModelName(SerializerAt(t)[2])
CommandCollision == \E i, j \in DOMAIN Todo : i # j /\ Todo[i][1] = Todo[j][1]

C2_DuplicateCommandNameExits ==
  ( /\ Called("register_cli_commands")
    /\ \E i, j \in DOMAIN app.bundles :
         /\ i # j
         /\ app.bundles[i].has_command_group /\ app.bundles[j].has_command_group
         /\ app.bundles[i].command_group_name = app.bundles[j].command_group_name )
  => /\ pc = "exited"
     /\ Len(log) = 1
     /\ \E i, j \in DOMAIN Todo : i # j /\ Todo[i][1] = log[1][2] /\ Todo[j][1] = log[1][2]

\* C3: once register_cli_commands has run over commands whose names are all
\* different, the process has not exited and app.cli.commands holds exactly
\* the collected commands, each under the name that was checked for it.
C3_UniqueNamesAllRegistered ==
  (Called("register_cli_commands") /\ ~CommandCollision)
  => /\ pc # "exited"
     /\ Keys(app.cli_commands) = {Todo[i][1] : i \in DOMAIN Todo}
     /\ \A i \in DOMAIN Todo : Get(app.cli_commands, Todo[i][1]) = Todo[i][2]

====
